---- MODULE Spec2Model ----
(***************************************************************************)
(* Quota-aware model dispatcher of the PathAI ai-service.                  *)
(*                                                                         *)
(*   app/core/rate_limiter.py   ModelQuota, GeminiRateLimiter (singleton)  *)
(*   app/services/roadmap_generator.py, langchain_service.py,              *)
(*   app/services/quiz_generator.py   the pipelines that use the limiter   *)
(*                                                                         *)
(* Time is the value of time.time() in whole seconds.  One action reads    *)
(* the clock once: the few microseconds between two time.time() calls of   *)
(* one synchronous block are not modelled.                                 *)
(***************************************************************************)
EXTENDS Integers, Sequences, FiniteSets, TLC

VARIABLES models, now, last, calls, pc, kind, chosen, attempt, waited, wake,
          last_error, max_wait, gen

vars == <<models, now, last, calls, pc, kind, chosen, attempt, waited, wake,
          last_error, max_wait, gen>>

(***************************************************************************)
(* Program constants                                                       *)
(***************************************************************************)
MinuteWindow == 60
DayWindow == 86400
DefaultEstimate == 4000

Flash == "gemini-2.5-flash"
FlashLite == "gemini-2.5-flash-lite"
Pro == "gemini-2.5-pro"
None == "None"

priority_order == <<Flash, FlashLite, Pro>>

(***************************************************************************)
(* ModelQuota                                                              *)
(***************************************************************************)
ModelQuota(model_name, rpm, tpm, rpd) ==
    [model_name |-> model_name, rpm_limit |-> rpm, tpm_limit |-> tpm, rpd_limit |-> rpd,
     minute_requests |-> <<>>, minute_tokens |-> <<>>, day_requests |-> <<>>]

RECURSIVE SumTokens(_)
SumTokens(s) == IF s = <<>> THEN 0 ELSE Head(s)[2] + SumTokens(Tail(s))

current_minute_tokens(q) == SumTokens(q.minute_tokens)

\* off-by-one at the window edge: an entry exactly 60 s old is kept
cleanup_keeps_edge(q, t) ==
    LET minute_ago == t - MinuteWindow
        day_ago == t - DayWindow
    IN [q EXCEPT !.minute_requests = SelectSeq(@, LAMBDA x : x >= minute_ago),
                 !.minute_tokens = SelectSeq(@, LAMBDA p : p[1] >= minute_ago),
                 !.day_requests = SelectSeq(@, LAMBDA x : x > day_ago)]

\* the minute series pruned with the day window
cleanup_day_only(q, t) ==
    LET day_ago == t - DayWindow
    IN [q EXCEPT !.minute_requests = SelectSeq(@, LAMBDA x : x > day_ago),
                 !.minute_tokens = SelectSeq(@, LAMBDA p : p[1] > day_ago),
                 !.day_requests = SelectSeq(@, LAMBDA x : x > day_ago)]

\* off-by-one at the edge of the day window: an entry exactly 86400 s old is kept
cleanup_keeps_day_edge(q, t) ==
    LET minute_ago == t - MinuteWindow
        day_ago == t - DayWindow
    IN [q EXCEPT !.minute_requests = SelectSeq(@, LAMBDA x : x > minute_ago),
                 !.minute_tokens = SelectSeq(@, LAMBDA p : p[1] > minute_ago),
                 !.day_requests = SelectSeq(@, LAMBDA x : x >= day_ago)]

cleanup_old_records(q, t) ==
    LET minute_ago == t - MinuteWindow
        day_ago == t - DayWindow
    IN [q EXCEPT !.minute_requests = SelectSeq(@, LAMBDA x : x > minute_ago),
                 !.minute_tokens = SelectSeq(@, LAMBDA p : p[1] > minute_ago),
                 !.day_requests = SelectSeq(@, LAMBDA x : x > day_ago)]

\* the limits compared with the series as they stand, with no pruning first
can_serve_unpruned(q, t, estimated_tokens) ==
    LET rpm_ok == Len(q.minute_requests) < q.rpm_limit
        tpm_ok == current_minute_tokens(q) + estimated_tokens <= q.tpm_limit
        rpd_ok == Len(q.day_requests) < q.rpd_limit
    IN [q |-> q, ok |-> rpm_ok /\ tpm_ok /\ rpd_ok]

\* the token budget compared with < instead of <=
can_serve_tpm_strict(q, t, estimated_tokens) ==
    LET c == cleanup_old_records(q, t)
        rpm_ok == Len(c.minute_requests) < c.rpm_limit
        tpm_ok == current_minute_tokens(c) + estimated_tokens < c.tpm_limit
        rpd_ok == Len(c.day_requests) < c.rpd_limit
    IN [q |-> c, ok |-> rpm_ok /\ tpm_ok /\ rpd_ok]

\* the request count compared with <= instead of <
can_serve_rpm_loose(q, t, estimated_tokens) ==
    LET c == cleanup_old_records(q, t)
        rpm_ok == Len(c.minute_requests) <= c.rpm_limit
        tpm_ok == current_minute_tokens(c) + estimated_tokens <= c.tpm_limit
        rpd_ok == Len(c.day_requests) < c.rpd_limit
    IN [q |-> c, ok |-> rpm_ok /\ tpm_ok /\ rpd_ok]

\* can_serve: the ledger after the call and the boolean it returns
can_serve(q, t, estimated_tokens) ==
    LET c == cleanup_old_records(q, t)
        rpm_ok == Len(c.minute_requests) < c.rpm_limit
        tpm_ok == current_minute_tokens(c) + estimated_tokens <= c.tpm_limit
        rpd_ok == Len(c.day_requests) < c.rpd_limit
    IN [q |-> c, ok |-> rpm_ok /\ tpm_ok /\ rpd_ok]

\* the new entry put at the head of each series (insert(0, ...)) instead of appended
record_request_prepend(q, t, tokens_used) ==
    [q EXCEPT !.minute_requests = <<t>> \o @,
              !.day_requests = <<t>> \o @,
              !.minute_tokens = IF tokens_used > 0 THEN <<(<<t, tokens_used>>)>> \o @ ELSE @]

\* a zero-token call also appended to minute_tokens
record_request_always(q, t, tokens_used) ==
    [q EXCEPT !.minute_requests = Append(@, t),
              !.day_requests = Append(@, t),
              !.minute_tokens = IF tokens_used >= 0 THEN Append(@, <<t, tokens_used>>) ELSE @]

\* the request left out of day_requests
record_request_minute_only(q, t, tokens_used) ==
    [q EXCEPT !.minute_requests = Append(@, t),
              !.minute_tokens = IF tokens_used > 0 THEN Append(@, <<t, tokens_used>>) ELSE @]

record_request(q, t, tokens_used) ==
    [q EXCEPT !.minute_requests = Append(@, t),
              !.day_requests = Append(@, t),
              !.minute_tokens = IF tokens_used > 0 THEN Append(@, <<t, tokens_used>>) ELSE @]

\* the status poll booked on the ledger as a request of its own
get_status_booked(q, t) ==
    LET c == cleanup_old_records(q, t)
        a == can_serve(c, t, DefaultEstimate)
    IN [q |-> record_request(a.q, t, 0),
        status |-> [model |-> c.model_name,
                    rpm |-> <<Len(c.minute_requests), c.rpm_limit>>,
                    tpm |-> <<current_minute_tokens(c), c.tpm_limit>>,
                    rpd |-> <<Len(c.day_requests), c.rpd_limit>>,
                    available |-> a.ok]]

\* "available" computed with an estimate of 0 tokens
get_status_zero(q, t) ==
    LET c == cleanup_old_records(q, t)
        a == can_serve(c, t, 0)
    IN [q |-> a.q,
        status |-> [model |-> c.model_name,
                    rpm |-> <<Len(c.minute_requests), c.rpm_limit>>,
                    tpm |-> <<current_minute_tokens(c), c.tpm_limit>>,
                    rpd |-> <<Len(c.day_requests), c.rpd_limit>>,
                    available |-> a.ok]]

\* get_status: the ledger after the call and the snapshot it returns
get_status(q, t) ==
    LET c == cleanup_old_records(q, t)
        a == can_serve(c, t, DefaultEstimate)
    IN [q |-> a.q,
        status |-> [model |-> c.model_name,
                    rpm |-> <<Len(c.minute_requests), c.rpm_limit>>,
                    tpm |-> <<current_minute_tokens(c), c.tpm_limit>>,
                    rpd |-> <<Len(c.day_requests), c.rpd_limit>>,
                    available |-> a.ok]]

(***************************************************************************)
(* GeminiRateLimiter                                                       *)
(***************************************************************************)
InitModels ==
    (Flash :> ModelQuota(Flash, 15, 1000000, 1500)) @@
    (Pro :> ModelQuota(Pro, 2, 32000, 50)) @@
    (FlashLite :> ModelQuota(FlashLite, 15, 1000000, 1500))

\* _log_all_status: get_status on every ledger (only its pruning is kept)
log_all_status(ms, t) == [m \in DOMAIN ms |-> get_status(ms[m], t).q]

\* the scan running over the keys of self.models (insertion order) instead of priority_order
RECURSIVE select_from_dict(_, _, _, _)
select_from_dict(ms, t, estimated_tokens, i) ==
    LET order == <<Flash, Pro, FlashLite>>
    IN IF i > Len(order)
       THEN [models |-> log_all_status(ms, t), ret |-> None]
       ELSE LET model_name == order[i]
                r == can_serve(ms[model_name], t, estimated_tokens)
                ms2 == [ms EXCEPT ![model_name] = r.q]
            IN IF r.ok THEN [models |-> ms2, ret |-> model_name]
               ELSE select_from_dict(ms2, t, estimated_tokens, i + 1)

\* the scan booking a request on the model it returns, as a reservation
RECURSIVE select_from_reserves(_, _, _, _)
select_from_reserves(ms, t, estimated_tokens, i) ==
    IF i > Len(priority_order)
    THEN [models |-> log_all_status(ms, t), ret |-> None]
    ELSE LET model_name == priority_order[i]
             r == can_serve(ms[model_name], t, estimated_tokens)
             ms2 == [ms EXCEPT ![model_name] = r.q]
         IN IF r.ok
            THEN [models |-> [ms2 EXCEPT ![model_name] = record_request(@, t, estimated_tokens)],
                  ret |-> model_name]
            ELSE select_from_reserves(ms2, t, estimated_tokens, i + 1)

\* the scan giving up before the last entry of priority_order
RECURSIVE select_from_short(_, _, _, _)
select_from_short(ms, t, estimated_tokens, i) ==
    IF i > Len(priority_order) - 1
    THEN [models |-> log_all_status(ms, t), ret |-> None]
    ELSE LET model_name == priority_order[i]
             r == can_serve(ms[model_name], t, estimated_tokens)
             ms2 == [ms EXCEPT ![model_name] = r.q]
         IN IF r.ok THEN [models |-> ms2, ret |-> model_name]
            ELSE select_from_short(ms2, t, estimated_tokens, i + 1)

\* the for loop of select_model from position i of priority_order on
RECURSIVE select_from(_, _, _, _)
select_from(ms, t, estimated_tokens, i) ==
    IF i > Len(priority_order)
    THEN [models |-> log_all_status(ms, t), ret |-> None]
    ELSE LET model_name == priority_order[i]
             r == can_serve(ms[model_name], t, estimated_tokens)
             ms2 == [ms EXCEPT ![model_name] = r.q]
         IN IF r.ok THEN [models |-> ms2, ret |-> model_name]
            ELSE select_from(ms2, t, estimated_tokens, i + 1)

select_model(ms, t, estimated_tokens) == select_from(ms, t, estimated_tokens, 1)

\* a name that is not a key gets a ledger of its own (self.models as a defaultdict)
record_usage_registers(ms, t, model_name, tokens_used) ==
    IF model_name \in DOMAIN ms
    THEN [ms EXCEPT ![model_name] = record_request(@, t, tokens_used)]
    ELSE ms @@ (model_name :> record_request(ModelQuota(model_name, 15, 1000000, 1500),
                                             t, tokens_used))

\* usage booked on the head of priority_order whatever model was passed
record_usage_first(ms, t, model_name, tokens_used) ==
    IF model_name \in DOMAIN ms
    THEN [ms EXCEPT ![priority_order[1]] = record_request(@, t, tokens_used)]
    ELSE ms

record_usage(ms, t, model_name, tokens_used) ==
    IF model_name \in DOMAIN ms
    THEN [ms EXCEPT ![model_name] = record_request(@, t, tokens_used)]
    ELSE ms

get_all_status(ms, t) ==
    [models |-> [m \in DOMAIN ms |-> get_status(ms[m], t).q],
     status |-> [m \in DOMAIN ms |-> get_status(ms[m], t).status]]

\* the pass asking can_serve(0), not can_serve()
RECURSIVE wait_scan_zero(_, _, _)
wait_scan_zero(ms, t, i) ==
    IF i > Len(priority_order)
    THEN [models |-> ms, ret |-> None]
    ELSE LET model_name == priority_order[i]
             r == can_serve(ms[model_name], t, 0)
             ms2 == [ms EXCEPT ![model_name] = r.q]
         IN IF r.ok THEN [models |-> ms2, ret |-> model_name]
            ELSE wait_scan_zero(ms2, t, i + 1)

\* the pass returning the head of priority_order without asking can_serve
wait_scan_unchecked(ms, t, i) == [models |-> ms, ret |-> priority_order[1]]

\* the pass looking at the head of priority_order only
wait_scan_head(ms, t, i) ==
    LET model_name == priority_order[1]
        r == can_serve(ms[model_name], t, DefaultEstimate)
    IN [models |-> [ms EXCEPT ![model_name] = r.q],
        ret |-> IF r.ok THEN model_name ELSE None]

\* one pass of the inner for loop of wait_for_quota (after one sleep)
RECURSIVE wait_scan(_, _, _)
wait_scan(ms, t, i) ==
    IF i > Len(priority_order)
    THEN [models |-> ms, ret |-> None]
    ELSE LET model_name == priority_order[i]
             r == can_serve(ms[model_name], t, DefaultEstimate)
             ms2 == [ms EXCEPT ![model_name] = r.q]
         IN IF r.ok THEN [models |-> ms2, ret |-> model_name]
            ELSE wait_scan(ms2, t, i + 1)


\* the ledger after k consecutive record_request(tokens_used) calls at clock reading t
recorded_requests(q, t, k, tokens_used) ==
    [q EXCEPT !.minute_requests = @ \o [i \in 1..k |-> t],
              !.day_requests = @ \o [i \in 1..k |-> t],
              !.minute_tokens = IF tokens_used > 0 THEN @ \o [i \in 1..k |-> <<t, tokens_used>>] ELSE @]

(***************************************************************************)
(* Bounds and input domains                                                *)
(***************************************************************************)
MaxCalls == 1
Instants == {0, 59, 60, 61, 86400}
Estimates == {0, 4000}
Tokens == {0, 32000}
UnknownModel == "gemini-3-flash"
ModelNames == {Flash, FlashLite, Pro}

NumCallers == 2
MaxTime == 87
BusyWindow == 0
Callers == 1..NumCallers

\* Requests already recorded (with tokens_used = 0) when the observation starts:
\* none, one slot left, or a limit reached.
Loads == (Flash :> {0, 14, 15}) @@ (FlashLite :> {0, 15}) @@ (Pro :> {0, 1, 49})

NoCall == [op |-> "init", caller |-> 0, model |-> None, tokens |-> 0, ok |-> FALSE,
           ret |-> None, counts |-> <<>>]

InitLedgers ==
    \E kf \in Loads[Flash], kl \in Loads[FlashLite], kp \in Loads[Pro] :
        models = [m \in DOMAIN InitModels |->
                    recorded_requests(InitModels[m], 0,
                                      IF m = Flash THEN kf ELSE IF m = FlashLite THEN kl ELSE kp, 0)]

\* last_error = None (quiz_generator.py:70)
NoAttemptError == [attempt |-> 0, stage |-> None]

\* last_exception = None (gemini.py:33); no response; nothing raised
NoException == [attempt |-> 0, model |-> None, class |-> None]
NoResponse == [model |-> None, attempt |-> 0]
NotRaised == [error |-> None, last_attempt |-> NoException]

\* no generate_content / generate_json_content call in progress
NoGeneration ==
    [pc |-> "idle", is_json |-> FALSE, attempt_number |-> 0, i |-> 0,
     last_exception |-> NoException, invoked |-> <<>>,
     fallback |-> [ended |-> None, response |-> NoResponse, exception |-> NoException],
     result |-> NoResponse, raised |-> NotRaised]

InitCallers ==
    /\ pc = [c \in Callers |-> "idle"]
    /\ kind = [c \in Callers |-> None]
    /\ chosen = [c \in Callers |-> None]
    /\ attempt = [c \in Callers |-> 0]
    /\ waited = [c \in Callers |-> 0]
    /\ wake = [c \in Callers |-> 0]
    /\ last_error = [c \in Callers |-> NoAttemptError]
    /\ max_wait = [c \in Callers |-> 0]
    /\ gen = NoGeneration

Init ==
    /\ InitLedgers
    /\ now = 0
    /\ last = NoCall
    /\ calls = 0
    /\ InitCallers

pipeVars == <<pc, kind, chosen, attempt, waited, wake, last_error, max_wait>>

(***************************************************************************)
(* The limiter driven call by call                                         *)
(***************************************************************************)
\* time.time() moves forward between two calls
Advance ==
    /\ \E t \in Instants : t > now /\ now' = t
    /\ last' = [NoCall EXCEPT !.op = "advance"]
    /\ UNCHANGED <<models, calls, pipeVars, gen>>

CanServe(m, e) ==
    LET r == can_serve(models[m], now, e)
    IN /\ models' = [models EXCEPT ![m] = r.q]
       /\ last' = [NoCall EXCEPT !.op = "can_serve", !.model = m, !.tokens = e, !.ok = r.ok]
       /\ UNCHANGED <<now, calls, pipeVars, gen>>

\* record_usage held back while a coroutine is inside wait_for_quota
RecordUsageUnlessWaiting(name, n) ==
    /\ \A c \in Callers : pc[c] # "sleep"
    /\ calls < MaxCalls
    /\ calls' = calls + 1
    /\ models' = record_usage(models, now, name, n)
    /\ last' = [NoCall EXCEPT !.op = "record_usage", !.model = name, !.tokens = n]
    /\ UNCHANGED <<now, pipeVars, gen>>

RecordUsage(name, n) ==
    /\ calls < MaxCalls
    /\ calls' = calls + 1
    /\ models' = record_usage(models, now, name, n)
    /\ last' = [NoCall EXCEPT !.op = "record_usage", !.model = name, !.tokens = n]
    /\ UNCHANGED <<now, pipeVars, gen>>

SelectModel(e) ==
    LET r == select_model(models, now, e)
    IN /\ models' = r.models
       /\ last' = [NoCall EXCEPT !.op = "select_model", !.tokens = e, !.ret = r.ret,
                                 !.ok = (r.ret # None)]
       /\ UNCHANGED <<now, calls, pipeVars, gen>>

GetStatus(m) ==
    LET r == get_status(models[m], now)
    IN /\ models' = [models EXCEPT ![m] = r.q]
       /\ last' = [NoCall EXCEPT !.op = "get_status", !.model = m, !.ok = r.status.available,
                                 !.counts = <<r.status.rpm[1], r.status.tpm[1], r.status.rpd[1]>>]
       /\ UNCHANGED <<now, calls, pipeVars, gen>>

GetAllStatus ==
    LET r == get_all_status(models, now)
    IN /\ models' = r.models
       /\ last' = [NoCall EXCEPT !.op = "get_all_status"]
       /\ UNCHANGED <<now, calls, pipeVars, gen>>

Next ==
    \/ Advance
    \/ \E m \in ModelNames, e \in Estimates : CanServe(m, e)
    \/ \E name \in ModelNames \cup {UnknownModel}, n \in Tokens : RecordUsage(name, n)
    \/ \E e \in Estimates : SelectModel(e)
    \/ \E m \in ModelNames : GetStatus(m)
    \/ GetAllStatus

Spec == Init /\ [][Next]_vars


(***************************************************************************)
(* The generation pipelines.  Each caller is one coroutine on the event    *)
(* loop; an action is the synchronous block between two suspension points  *)
(* (the backend call awaited by ainvoke, the asyncio.sleep(1) of           *)
(* wait_for_quota).  select_model contains no await and runs inside the    *)
(* block that calls it.                                                    *)
(***************************************************************************)
GenerateRoadmap == "generate_roadmap"
Generate == "generate"
GenerateQuiz == "generate_quiz"
Kinds == {GenerateRoadmap, Generate, GenerateQuiz}

\* estimated_tokens passed to select_model, and tokens_used passed to record_usage
Estimate(k) == IF k = GenerateRoadmap THEN 5000 ELSE IF k = Generate THEN 4000 ELSE 1500
\* max_wait passed to wait_for_quota
MaxWait(k) == IF k = GenerateQuiz THEN 30 ELSE 60
\* max_retries of generate_quiz; the two roadmap pipelines make one attempt
MaxAttempts(k) == IF k = GenerateQuiz THEN 3 ELSE 1

\* generate_quiz requests served back to back, first-fit, before the observation
\* starts at clock reading PipeStart: <<how many, the clock reading they were
\* served at>>.  Served at 0 they leave the minute window 3 s into the
\* observation; served at PipeStart they stay in it to the end.
PipeStart == MinuteWindow - 3
PipeLoads == {<<14, PipeStart>>, <<32, 0>>, <<32, PipeStart>>}

InitPipe ==
    /\ \E ld \in PipeLoads :
          LET n == ld[1]
              T == ld[2]
          IN models = [m \in DOMAIN InitModels |->
                      recorded_requests(InitModels[m], T,
                          IF m = Flash THEN (IF n < 15 THEN n ELSE 15)
                          ELSE IF m = FlashLite THEN (IF n < 15 THEN 0 ELSE IF n < 30 THEN n - 15 ELSE 15)
                          ELSE (IF n < 30 THEN 0 ELSE n - 30),
                          Estimate(GenerateQuiz))]
    /\ now = PipeStart
    /\ last = NoCall
    /\ calls = 0
    /\ InitCallers

\* top of one attempt: select_model, then either the backend call or the first sleep
StartAttempt(c, k, n, ms, op) ==
    LET s == select_model(ms, now, Estimate(k))
    IN /\ models' = s.models
       /\ kind' = [kind EXCEPT ![c] = k]
       /\ attempt' = [attempt EXCEPT ![c] = n]
       /\ chosen' = [chosen EXCEPT ![c] = s.ret]
       /\ pc' = [pc EXCEPT ![c] = IF s.ret = None THEN "sleep" ELSE "invoke"]
       /\ waited' = [waited EXCEPT ![c] = 0]
       /\ wake' = [wake EXCEPT ![c] = IF s.ret = None THEN now + 1 ELSE 0]
       /\ last' = [NoCall EXCEPT !.op = op, !.caller = c, !.tokens = Estimate(k), !.ret = s.ret,
                                 !.ok = (s.ret # None)]

\* the exception an attempt ends with: the attempt it was raised in and the stage
\* that raised it
AttemptError(n, stage) == [attempt |-> n, stage |-> stage]

\* a response that fails _parse_questions ends the run at once
FailAttemptNoRetryOnValidation(c, ms, op) ==
    /\ last_error' = [last_error EXCEPT ![c] = AttemptError(attempt[c], op)]
    /\ IF attempt[c] < MaxAttempts(kind[c]) /\ op # "backend_return"
       THEN StartAttempt(c, kind[c], attempt[c] + 1, ms, op)
       ELSE /\ models' = ms
            /\ pc' = [pc EXCEPT ![c] = "failed"]
            /\ chosen' = [chosen EXCEPT ![c] = None]
            /\ last' = [NoCall EXCEPT !.op = op, !.caller = c]
            /\ UNCHANGED <<kind, attempt, waited, wake>>

\* last_error keeps the exception of the first failed attempt
FailAttemptKeepsFirst(c, ms, op) ==
    /\ last_error' = [last_error EXCEPT ![c] =
                         IF @ = NoAttemptError THEN AttemptError(attempt[c], op) ELSE @]
    /\ IF attempt[c] < MaxAttempts(kind[c])
       THEN StartAttempt(c, kind[c], attempt[c] + 1, ms, op)
       ELSE /\ models' = ms
            /\ pc' = [pc EXCEPT ![c] = "failed"]
            /\ chosen' = [chosen EXCEPT ![c] = None]
            /\ last' = [NoCall EXCEPT !.op = op, !.caller = c]
            /\ UNCHANGED <<kind, attempt, waited, wake>>

\* the except branch: generate_quiz keeps the exception in last_error and goes
\* round its loop; after the last attempt it raises an Exception made from
\* last_error.  The other pipelines re-raise the exception itself.
FailAttempt(c, ms, op) ==
    /\ last_error' = [last_error EXCEPT ![c] = AttemptError(attempt[c], op)]
    /\ IF attempt[c] < MaxAttempts(kind[c])
       THEN StartAttempt(c, kind[c], attempt[c] + 1, ms, op)
       ELSE /\ models' = ms
            /\ pc' = [pc EXCEPT ![c] = "failed"]
            /\ chosen' = [chosen EXCEPT ![c] = None]
            /\ last' = [NoCall EXCEPT !.op = op, !.caller = c]
            /\ UNCHANGED <<kind, attempt, waited, wake>>

\* A request arrives: its handler calls one of the three pipelines.  Callers are
\* interchangeable, so they arrive in the order of their numbers.
Begin(c, k) ==
    /\ pc[c] = "idle"
    /\ c > 1 => pc[c - 1] # "idle"
    /\ now <= PipeStart + BusyWindow
    /\ StartAttempt(c, k, 1, models, "begin")
    /\ last_error' = [last_error EXCEPT ![c] = NoAttemptError]
    /\ UNCHANGED <<now, calls, max_wait, gen>>

\* wait_for_quota sleeping on until a model has capacity, whatever max_wait is
WakeTickUnbounded(c) ==
    /\ pc[c] = "sleep"
    /\ now >= wake[c]
    /\ LET r == wait_scan(models, now, 1)
       IN /\ models' = r.models
          /\ chosen' = [chosen EXCEPT ![c] = r.ret]
          /\ pc' = [pc EXCEPT ![c] = IF r.ret # None THEN "invoke" ELSE "sleep"]
          /\ waited' = [waited EXCEPT ![c] = @ + 1]
          /\ wake' = [wake EXCEPT ![c] = IF r.ret # None THEN 0 ELSE now + 1]
          /\ last' = [NoCall EXCEPT !.op = "wake", !.caller = c, !.ret = r.ret,
                                    !.ok = (r.ret # None)]
          /\ UNCHANGED <<kind, attempt, last_error>>
    /\ UNCHANGED <<now, calls, max_wait, gen>>

\* wait_for_quota: asyncio.sleep(1) is over, one pass over priority_order
WakeTick(c) ==
    /\ pc[c] = "sleep"
    /\ now >= wake[c]
    /\ LET r == wait_scan(models, now, 1)
       IN IF r.ret # None
          THEN /\ models' = r.models
               /\ chosen' = [chosen EXCEPT ![c] = r.ret]
               /\ pc' = [pc EXCEPT ![c] = "invoke"]
               /\ waited' = [waited EXCEPT ![c] = @ + 1]
               /\ wake' = [wake EXCEPT ![c] = 0]
               /\ last' = [NoCall EXCEPT !.op = "wake", !.caller = c, !.ret = r.ret, !.ok = TRUE]
               /\ UNCHANGED <<kind, attempt, last_error>>
          ELSE IF waited[c] + 1 < MaxWait(kind[c])
          THEN /\ models' = r.models
               /\ waited' = [waited EXCEPT ![c] = @ + 1]
               /\ wake' = [wake EXCEPT ![c] = now + 1]
               /\ last' = [NoCall EXCEPT !.op = "wake", !.caller = c]
               /\ UNCHANGED <<pc, kind, chosen, attempt, last_error>>
          ELSE FailAttempt(c, r.models, "wait_timeout")
    /\ UNCHANGED <<now, calls, max_wait, gen>>

\* usage booked although the backend call raised
BackendRaiseRecords(c) ==
    /\ pc[c] = "invoke"
    /\ FailAttempt(c, record_usage(models, now, chosen[c], Estimate(kind[c])), "backend_raise")
    /\ UNCHANGED <<now, calls, max_wait, gen>>

\* the backend call fails: ainvoke raises (transport error, or the chain's parser)
BackendRaise(c) ==
    /\ pc[c] = "invoke"
    /\ FailAttempt(c, models, "backend_raise")
    /\ UNCHANGED <<now, calls, max_wait, gen>>

\* _parse_questions run before record_usage: a response that fails validation
\* is not booked
BackendReturnValidatesFirst(c, valid) ==
    /\ pc[c] = "invoke"
    /\ (kind[c] # GenerateQuiz => valid)
    /\ IF valid
       THEN /\ models' = record_usage(models, now, chosen[c], Estimate(kind[c]))
            /\ pc' = [pc EXCEPT ![c] = "done"]
            /\ last' = [NoCall EXCEPT !.op = "backend_return", !.caller = c, !.ok = TRUE]
            /\ UNCHANGED <<kind, chosen, attempt, waited, wake, last_error>>
       ELSE FailAttempt(c, models, "backend_return")
    /\ UNCHANGED <<now, calls, max_wait, gen>>

\* the backend call returns: record_usage, then (generate_quiz) _parse_questions
BackendReturn(c, valid) ==
    /\ pc[c] = "invoke"
    /\ (kind[c] # GenerateQuiz => valid)
    /\ LET ms == record_usage(models, now, chosen[c], Estimate(kind[c]))
       IN IF valid
          THEN /\ models' = ms
               /\ pc' = [pc EXCEPT ![c] = "done"]
               /\ last' = [NoCall EXCEPT !.op = "backend_return", !.caller = c, !.ok = TRUE]
               /\ UNCHANGED <<kind, chosen, attempt, waited, wake, last_error>>
          ELSE FailAttempt(c, ms, "backend_return")
    /\ UNCHANGED <<now, calls, max_wait, gen>>

\* the coroutine has returned or raised; the handler answers its request
Return(c) ==
    /\ pc[c] \in {"done", "failed"}
    /\ pc' = [pc EXCEPT ![c] = "answered"]
    /\ chosen' = [chosen EXCEPT ![c] = None]
    /\ kind' = [kind EXCEPT ![c] = None]
    /\ attempt' = [attempt EXCEPT ![c] = 0]
    /\ waited' = [waited EXCEPT ![c] = 0]
    /\ last_error' = [last_error EXCEPT ![c] = NoAttemptError]
    /\ last' = [NoCall EXCEPT !.op = "return", !.caller = c]
    /\ UNCHANGED <<models, now, calls, wake, max_wait, gen>>

\* One second passes.  The event loop wakes a sleeper in the second its sleep
\* ends, so the clock does not run past a due wake-up.  Requests arrive, and
\* backend calls stay pending across a second, only in the first BusyWindow
\* seconds; after that the clock runs on for the callers asleep in
\* wait_for_quota.
Sleeping == {c \in Callers : pc[c] = "sleep"}
Pending == {c \in Callers : pc[c] \in {"invoke", "done", "failed"}}

Tick ==
    /\ now < MaxTime
    /\ \A c \in Sleeping : now < wake[c]
    /\ (Sleeping = {} \/ Pending # {}) => now < PipeStart + BusyWindow
    /\ now' = now + 1
    /\ last' = [NoCall EXCEPT !.op = "tick"]
    /\ UNCHANGED <<models, calls, pc, kind, chosen, attempt, waited, wake, last_error, max_wait, gen>>

NextPipe ==
    \/ Tick
    \/ \E c \in Callers, k \in Kinds : Begin(c, k)
    \/ \E c \in Callers : WakeTick(c)
    \/ \E c \in Callers : BackendRaise(c)
    \/ \E c \in Callers, valid \in BOOLEAN : BackendReturn(c, valid)
    \/ \E c \in Callers : Return(c)

SpecPipe == InitPipe /\ [][NextPipe]_vars

(***************************************************************************)
(* wait_for_quota called on the limiter, while other callers go on calling *)
(* can_serve, select_model and record_usage.  The coroutine is suspended   *)
(* in asyncio.sleep(1) between two passes over priority_order.             *)
(***************************************************************************)
WaitForQuotaCall == "wait_for_quota"

\* max_wait arguments
WaitBounds == {0, 3, 5}

\* the caller that waits; the calls of the others come with no caller state
Waiter == 1

\* arguments of the other callers' calls
OtherEstimates == Estimates
OtherModels == ModelNames \cup {UnknownModel}
OtherTokens == {1500}

\* What a ledger holds when the observation starts at clock reading PipeStart:
\* nothing; rpm_limit requests served at 0, which leave the minute window 3 s
\* later; rpm_limit requests served just now; one request short of rpm_limit;
\* one request whose tokens leave room for less than the default estimate.
\* One load for each of flash, flash-lite, pro.
WaitLoads ==
    { <<"free", "free", "free">>,
      <<"full_new", "full_new", "full_new">>,
      <<"full_new", "full_old", "full_new">>,
      <<"full_new", "full_new", "full_old">>,
      <<"tokens", "full_old", "full_new">>,
      <<"full_new", "full_new", "tokens">>,
      <<"full_new", "full_new", "one_left">> }

LoadedQuota(q, load) ==
    IF load = "full_old" THEN recorded_requests(q, 0, q.rpm_limit, 0)
    ELSE IF load = "full_new" THEN recorded_requests(q, PipeStart, q.rpm_limit, 0)
    ELSE IF load = "one_left" THEN recorded_requests(q, PipeStart, q.rpm_limit - 1, 0)
    ELSE IF load = "tokens" THEN recorded_requests(q, PipeStart, 1, q.tpm_limit - DefaultEstimate \div 2)
    ELSE q

InitWait ==
    /\ \E ld \in WaitLoads :
          models = [m \in DOMAIN InitModels |->
                      LoadedQuota(InitModels[m],
                                  IF m = Flash THEN ld[1] ELSE IF m = FlashLite THEN ld[2] ELSE ld[3])]
    /\ now = PipeStart
    /\ last = NoCall
    /\ calls = 0
    /\ InitCallers

\* the ledgers checked on entry, before the first sleep
WaitForQuotaChecksFirst(c, mw) ==
    /\ pc[c] = "idle"
    /\ now <= PipeStart + BusyWindow
    /\ LET r == wait_scan(models, now, 1)
           sleeps == r.ret = None /\ mw > 0
       IN /\ models' = r.models
          /\ chosen' = [chosen EXCEPT ![c] = r.ret]
          /\ pc' = [pc EXCEPT ![c] = IF sleeps THEN "sleep" ELSE "returned"]
          /\ wake' = [wake EXCEPT ![c] = IF sleeps THEN now + 1 ELSE 0]
          /\ last' = [NoCall EXCEPT !.op = "wait_for_quota", !.caller = c, !.tokens = mw,
                                    !.ret = r.ret]
    /\ kind' = [kind EXCEPT ![c] = WaitForQuotaCall]
    /\ max_wait' = [max_wait EXCEPT ![c] = mw]
    /\ waited' = [waited EXCEPT ![c] = 0]
    /\ UNCHANGED <<now, calls, attempt, last_error, gen>>

\* wait_for_quota(max_wait) is called: the first asyncio.sleep(1) starts, or the
\* loop body never runs (max_wait = 0) and None is returned
WaitForQuota(c, mw) ==
    /\ pc[c] = "idle"
    /\ now <= PipeStart + BusyWindow
    /\ kind' = [kind EXCEPT ![c] = WaitForQuotaCall]
    /\ max_wait' = [max_wait EXCEPT ![c] = mw]
    /\ waited' = [waited EXCEPT ![c] = 0]
    /\ chosen' = [chosen EXCEPT ![c] = None]
    /\ pc' = [pc EXCEPT ![c] = IF mw > 0 THEN "sleep" ELSE "returned"]
    /\ wake' = [wake EXCEPT ![c] = IF mw > 0 THEN now + 1 ELSE 0]
    /\ last' = [NoCall EXCEPT !.op = "wait_for_quota", !.caller = c, !.tokens = mw]
    /\ UNCHANGED <<models, now, calls, attempt, last_error, gen>>

\* the loop goes on for one iteration more than max_wait
WaitWakeExtra(c) ==
    /\ pc[c] = "sleep"
    /\ kind[c] = WaitForQuotaCall
    /\ now >= wake[c]
    /\ LET r == wait_scan(models, now, 1)
           stop == r.ret # None \/ waited[c] + 1 > max_wait[c]
       IN /\ models' = r.models
          /\ waited' = [waited EXCEPT ![c] = @ + 1]
          /\ chosen' = [chosen EXCEPT ![c] = r.ret]
          /\ pc' = [pc EXCEPT ![c] = IF stop THEN "returned" ELSE "sleep"]
          /\ wake' = [wake EXCEPT ![c] = IF stop THEN 0 ELSE now + 1]
          /\ last' = [NoCall EXCEPT !.op = "wait_wake", !.caller = c, !.ret = r.ret, !.ok = stop]
    /\ UNCHANGED <<now, calls, kind, attempt, last_error, max_wait, gen>>

\* asyncio.sleep(1) of iteration i = waited[c] is over: one pass over
\* priority_order; return the model found, go to sleep again, or (last
\* iteration) fall out of the loop and return None
WaitWake(c) ==
    /\ pc[c] = "sleep"
    /\ kind[c] = WaitForQuotaCall
    /\ now >= wake[c]
    /\ LET r == wait_scan(models, now, 1)
           stop == r.ret # None \/ waited[c] + 1 >= max_wait[c]
       IN /\ models' = r.models
          /\ waited' = [waited EXCEPT ![c] = @ + 1]
          /\ chosen' = [chosen EXCEPT ![c] = r.ret]
          /\ pc' = [pc EXCEPT ![c] = IF stop THEN "returned" ELSE "sleep"]
          /\ wake' = [wake EXCEPT ![c] = IF stop THEN 0 ELSE now + 1]
          /\ last' = [NoCall EXCEPT !.op = "wait_wake", !.caller = c, !.ret = r.ret, !.ok = stop]
    /\ UNCHANGED <<now, calls, kind, attempt, last_error, max_wait, gen>>

NextWait ==
    \/ Tick
    \/ \E mw \in WaitBounds : WaitForQuota(Waiter, mw)
    \/ WaitWake(Waiter)
    \/ \E m \in ModelNames, e \in OtherEstimates : CanServe(m, e)
    \/ \E name \in OtherModels, n \in OtherTokens : RecordUsage(name, n)
    \/ \E e \in OtherEstimates : SelectModel(e)
    \/ \E m \in ModelNames : GetStatus(m)
    \/ GetAllStatus

SpecWait == InitWait /\ [][NextWait]_vars

(***************************************************************************)
(* app/core/gemini.py: generate_content and generate_json_content, each    *)
(* wrapped in tenacity's retry(stop_after_attempt(3)) around               *)
(* _generate_with_fallback, which walks MODELS.  gen holds the one call in *)
(* progress:                                                               *)
(*   attempt_number  tenacity's attempt counter                            *)
(*   i               position in MODELS of the variant being awaited       *)
(*   last_exception  the local of _generate_with_fallback                  *)
(*   invoked         every backend invocation so far, <<attempt, model>>   *)
(*   fallback        how the latest _generate_with_fallback call ended     *)
(*   result, raised  what the caller of generate_content gets              *)
(***************************************************************************)
MODELS == <<"gemini-2.5-flash-lite", "gemini-2.5-flash", "gemini-3-flash">>
StopAfterAttempt == 3

\* str(e) contains "429" / "RESOURCE_EXHAUSTED", or it does not
ErrorClasses == {"429", "other"}

\* the exception raised for variant m in attempt n
VariantError(n, m, class) == [attempt |-> n, model |-> m, class |-> class]

\* _generate_with_fallback is entered (attempt n): the first variant is invoked
StartFallback(g, n) ==
    [g EXCEPT !.pc = "variant", !.attempt_number = n, !.i = 1, !.last_exception = NoException,
              !.fallback = NoGeneration.fallback, !.invoked = Append(@, <<n, MODELS[1]>>)]

\* an exception leaves generate_content: tenacity sleeps and retries, or after
\* the last attempt raises RetryError holding that attempt's exception
AttemptFails(g, e) ==
    IF g.attempt_number < StopAfterAttempt
    THEN [g EXCEPT !.pc = "backoff"]
    ELSE [g EXCEPT !.pc = "raised", !.raised = [error |-> "RetryError", last_attempt |-> e]]

GenerateContent(is_json) ==
    /\ gen.pc = "idle"
    /\ gen' = StartFallback([NoGeneration EXCEPT !.is_json = is_json], 1)
    /\ last' = [NoCall EXCEPT !.op = "generate_content", !.ok = is_json]
    /\ UNCHANGED <<models, now, calls, pipeVars>>

\* an error that is not a 429 is raised at once instead of trying the next variant
VariantRaiseFailFast(class) ==
    /\ gen.pc = "variant"
    /\ LET e == VariantError(gen.attempt_number, MODELS[gen.i], class)
           g == [gen EXCEPT !.last_exception = e]
       IN gen' = IF gen.i < Len(MODELS) /\ class = "429"
                 THEN [g EXCEPT !.i = @ + 1,
                                !.invoked = Append(@, <<gen.attempt_number, MODELS[gen.i + 1]>>)]
                 ELSE AttemptFails([g EXCEPT !.fallback.ended = "raised", !.fallback.exception = g.last_exception],
                                   g.last_exception)
    /\ last' = [NoCall EXCEPT !.op = "variant_raise", !.model = MODELS[gen.i], !.ret = class]
    /\ UNCHANGED <<models, now, calls, pipeVars>>

\* last_exception keeps the first exception of the scan
VariantRaiseKeepsFirst(class) ==
    /\ gen.pc = "variant"
    /\ LET e == VariantError(gen.attempt_number, MODELS[gen.i], class)
           g == [gen EXCEPT !.last_exception = IF @ = NoException THEN e ELSE @]
       IN gen' = IF gen.i < Len(MODELS)
                 THEN [g EXCEPT !.i = @ + 1,
                                !.invoked = Append(@, <<gen.attempt_number, MODELS[gen.i + 1]>>)]
                 ELSE AttemptFails([g EXCEPT !.fallback.ended = "raised", !.fallback.exception = g.last_exception],
                                   g.last_exception)
    /\ last' = [NoCall EXCEPT !.op = "variant_raise", !.model = MODELS[gen.i], !.ret = class]
    /\ UNCHANGED <<models, now, calls, pipeVars>>

\* client.aio.models.generate_content raises for MODELS[i]: the except branch
\* stores the exception and continues with the next variant whatever the class;
\* after the last variant _generate_with_fallback raises last_exception
VariantRaise(class) ==
    /\ gen.pc = "variant"
    /\ LET e == VariantError(gen.attempt_number, MODELS[gen.i], class)
           g == [gen EXCEPT !.last_exception = e]
       IN gen' = IF gen.i < Len(MODELS)
                 THEN [g EXCEPT !.i = @ + 1,
                                !.invoked = Append(@, <<gen.attempt_number, MODELS[gen.i + 1]>>)]
                 ELSE AttemptFails([g EXCEPT !.fallback.ended = "raised", !.fallback.exception = g.last_exception],
                                   g.last_exception)
    /\ last' = [NoCall EXCEPT !.op = "variant_raise", !.model = MODELS[gen.i], !.ret = class]
    /\ UNCHANGED <<models, now, calls, pipeVars>>

\* client.aio.models.generate_content returns for MODELS[i]:
\* _generate_with_fallback returns the response; generate_content returns its
\* text, generate_json_content parses it (both json.loads may fail)
VariantReturn(parses) ==
    /\ gen.pc = "variant"
    /\ (~gen.is_json => parses)
    /\ LET response == [model |-> MODELS[gen.i], attempt |-> gen.attempt_number]
           g == [gen EXCEPT !.fallback.ended = "returned", !.fallback.response = response]
       IN gen' = IF parses
                 THEN [g EXCEPT !.pc = "returned", !.result = response]
                 ELSE AttemptFails(g, VariantError(gen.attempt_number, MODELS[gen.i], "JSONDecodeError"))
    /\ last' = [NoCall EXCEPT !.op = "variant_return", !.model = MODELS[gen.i], !.ok = parses]
    /\ UNCHANGED <<models, now, calls, pipeVars>>

\* the retry resumes at the variant the failed attempt ended with
BackoffOverResumes ==
    /\ gen.pc = "backoff"
    /\ gen' = [StartFallback(gen, gen.attempt_number + 1)
                 EXCEPT !.i = gen.i,
                        !.invoked = Append(gen.invoked, <<gen.attempt_number + 1, MODELS[gen.i]>>)]
    /\ last' = [NoCall EXCEPT !.op = "retry"]
    /\ UNCHANGED <<models, now, calls, pipeVars>>

\* tenacity's sleep between two attempts is over
BackoffOver ==
    /\ gen.pc = "backoff"
    /\ gen' = StartFallback(gen, gen.attempt_number + 1)
    /\ last' = [NoCall EXCEPT !.op = "retry"]
    /\ UNCHANGED <<models, now, calls, pipeVars>>

InitGen ==
    /\ models = InitModels
    /\ now = 0
    /\ last = NoCall
    /\ calls = 0
    /\ InitCallers

NextGen ==
    \/ \E is_json \in BOOLEAN : GenerateContent(is_json)
    \/ \E class \in ErrorClasses : VariantRaise(class)
    \/ \E parses \in BOOLEAN : VariantReturn(parses)
    \/ BackoffOver

SpecGen == InitGen /\ [][NextGen]_vars

(***************************************************************************)
(* Cancellation.  The task running a pipeline is cancelled while it is     *)
(* suspended in the asyncio.sleep(1) of wait_for_quota: CancelledError is  *)
(* raised at the await.  wait_for_quota has no handler, and the handlers   *)
(* of the pipelines are `except Exception`, which CancelledError (a        *)
(* BaseException) does not match: the exception leaves the coroutine.      *)
(***************************************************************************)
\* the handler written `except BaseException`: the cancellation is taken for a
\* failed attempt
CancelCaught(c) ==
    /\ pc[c] = "sleep"
    /\ wake' = [wake EXCEPT ![c] = 0]
    /\ FailAttempt(c, models, "cancel")
    /\ UNCHANGED <<now, calls, max_wait, gen>>

Cancel(c) ==
    /\ pc[c] = "sleep"
    /\ pc' = [pc EXCEPT ![c] = "cancelled"]
    /\ wake' = [wake EXCEPT ![c] = 0]
    /\ waited' = [waited EXCEPT ![c] = 0]
    /\ last_error' = [last_error EXCEPT ![c] = NoAttemptError]
    /\ last' = [NoCall EXCEPT !.op = "cancel", !.caller = c]
    /\ UNCHANGED <<models, now, calls, kind, chosen, attempt, max_wait, gen>>

NextCancel ==
    \/ NextPipe
    \/ \E c \in Callers : Cancel(c)

\* the observation starts with every model at its rpm_limit: requests wait
InitCancel ==
    /\ InitPipe
    /\ \A m \in ModelNames : Len(models[m].minute_requests) >= models[m].rpm_limit

SpecCancel == InitCancel /\ [][NextCancel]_vars

(***************************************************************************)
(* A burst: flash and flash-lite have served rpm_limit requests in the     *)
(* current minute and NumBurst generate_roadmap requests arrive within one *)
(* second, each a coroutine of its own on the event loop.                  *)
(***************************************************************************)
NumBurst == 7
BurstCallers == 1..NumBurst

InitBurst ==
    /\ models = [m \in DOMAIN InitModels |->
                    recorded_requests(InitModels[m], PipeStart,
                                      IF m = Pro THEN 0 ELSE InitModels[m].rpm_limit,
                                      Estimate(GenerateRoadmap))]
    /\ now = PipeStart
    /\ last = NoCall
    /\ calls = 0
    /\ pc = [c \in BurstCallers |-> "idle"]
    /\ kind = [c \in BurstCallers |-> None]
    /\ chosen = [c \in BurstCallers |-> None]
    /\ attempt = [c \in BurstCallers |-> 0]
    /\ waited = [c \in BurstCallers |-> 0]
    /\ wake = [c \in BurstCallers |-> 0]
    /\ last_error = [c \in BurstCallers |-> NoAttemptError]
    /\ max_wait = [c \in BurstCallers |-> 0]
    /\ gen = NoGeneration

NextBurst ==
    \/ \E c \in BurstCallers : Begin(c, GenerateRoadmap)
    \/ \E c \in BurstCallers : BackendRaise(c)
    \/ \E c \in BurstCallers : BackendReturn(c, TRUE)
    \/ \E c \in BurstCallers : Return(c)

SpecBurst == InitBurst /\ [][NextBurst]_vars

(***************************************************************************)
(* Runs to completion.  The event loop resumes a coroutine whose sleep is   *)
(* over or whose backend call has ended, and every backend call returns or *)
(* raises: weak fairness on those steps and on the clock.  A               *)
(* generate_content call shares no state with the limiter or the           *)
(* pipelines, so it is observed on its own, while no pipeline runs.        *)
(***************************************************************************)
\* the coroutines whose runs are followed
NumLive == 1
LiveCallers == 1..NumLive

\* the clock is followed until every request recorded by PipeStart + BusyWindow
\* has left the minute window
LiveMaxTime == PipeStart + BusyWindow + MinuteWindow + 1

TickLive ==
    /\ now < LiveMaxTime
    /\ \A c \in Sleeping : now < wake[c]
    /\ (Sleeping = {} \/ Pending # {}) => now < PipeStart + BusyWindow
    /\ now' = now + 1
    /\ last' = [NoCall EXCEPT !.op = "tick"]
    /\ UNCHANGED <<models, calls, pc, kind, chosen, attempt, waited, wake, last_error, max_wait, gen>>

BeginLive(c, k) ==
    /\ c \in LiveCallers
    /\ gen.pc = "idle"
    /\ Begin(c, k)

GenerateContentLive(is_json) ==
    /\ \A c \in Callers : pc[c] = "idle"
    /\ GenerateContent(is_json)

BackendEnds(c) == BackendRaise(c) \/ \E valid \in BOOLEAN : BackendReturn(c, valid)

VariantEnds == (\E class \in ErrorClasses : VariantRaise(class)) \/ (\E parses \in BOOLEAN : VariantReturn(parses))

NextLive ==
    \/ TickLive
    \/ \E c \in LiveCallers, k \in Kinds : BeginLive(c, k)
    \/ \E c \in LiveCallers : WakeTick(c)
    \/ \E c \in LiveCallers : BackendEnds(c)
    \/ \E c \in LiveCallers : Return(c)
    \/ \E is_json \in BOOLEAN : GenerateContentLive(is_json)
    \/ VariantEnds
    \/ BackoffOver

\* Weak fairness of WakeTick(c) and of BackendEnds(c), with ENABLED written out
\* as the guard of the action and the step recognised by what it leaves in last
WakeOps == {"wake", "wait_timeout"}
BackendOps == {"backend_raise", "backend_return"}

FairWake(c) ==
    <>[](pc[c] = "sleep" /\ now >= wake[c])
       => []<><<last'.caller = c /\ last'.op \in WakeOps>>_vars

FairBackend(c) ==
    <>[](pc[c] = "invoke")
       => []<><<last'.caller = c /\ last'.op \in BackendOps>>_vars

Fairness ==
    /\ WF_vars(TickLive)
    /\ \A c \in LiveCallers : FairWake(c) /\ FairBackend(c) /\ WF_vars(Return(c))
    /\ WF_vars(VariantEnds)
    /\ WF_vars(BackoffOver)

SpecLive == InitPipe /\ [][NextLive]_vars /\ Fairness

(***************************************************************************)
(* The registry left alone: the clock moves, select_model is asked, and at *)
(* most MaxCalls further requests are recorded.  At the start every ledger *)
(* is empty, at its rpm_limit or at its rpd_limit.                         *)
(***************************************************************************)
IdleInstants == {60, 120, 86400, 86460}
IdleEstimates == {4000, 32001, 1000000}
IdleTokens == {4000}

InitIdle ==
    /\ \E full \in [ModelNames -> {"empty", "minute", "day"}] :
          models = [m \in DOMAIN InitModels |->
                      recorded_requests(InitModels[m], 0,
                                        IF full[m] = "empty" THEN 0
                                        ELSE IF full[m] = "minute" THEN InitModels[m].rpm_limit
                                        ELSE InitModels[m].rpd_limit, 0)]
    /\ now = 0
    /\ last = NoCall
    /\ calls = 0
    /\ InitCallers

\* time.time() moves forward while nothing is asked of the limiter
AdvanceIdle ==
    /\ \E t \in IdleInstants : t > now /\ now' = t
    /\ last' = [NoCall EXCEPT !.op = "advance"]
    /\ UNCHANGED <<models, calls, pipeVars, gen>>

NextIdle ==
    \/ AdvanceIdle
    \/ \E e \in IdleEstimates : SelectModel(e)
    \/ \E name \in ModelNames, n \in IdleTokens : RecordUsage(name, n)

SpecIdle == InitIdle /\ [][NextIdle]_vars

(***************************************************************************)
(* Usage inside the windows, counted from the entries themselves           *)
(***************************************************************************)
MinuteCount(q, t) ==
    Cardinality({i \in 1..Len(q.minute_requests) : t < q.minute_requests[i] + 60})

DayCount(q, t) ==
    Cardinality({i \in 1..Len(q.day_requests) : t < q.day_requests[i] + 86400})

RECURSIVE TokensUpTo(_, _, _)
TokensUpTo(q, t, i) ==
    IF i = 0 THEN 0
    ELSE TokensUpTo(q, t, i - 1)
         + (IF t < q.minute_tokens[i][1] + 60 THEN q.minute_tokens[i][2] ELSE 0)

MinuteTokens(q, t) == TokensUpTo(q, t, Len(q.minute_tokens))

HasCapacity(q, t, e) ==
    /\ MinuteCount(q, t) < q.rpm_limit
    /\ MinuteTokens(q, t) + e <= q.tpm_limit
    /\ DayCount(q, t) < q.rpd_limit

Entries(s) == {s[i] : i \in 1..Len(s)}

(***************************************************************************)
(* C1  can_serve(e) answers true exactly when, counting only the entries   *)
(* inside their windows, requests in the minute < rpm_limit, tokens in the *)
(* minute + e <= tpm_limit and requests in the day < rpd_limit; the call   *)
(* leaves no expired entry in the ledger.                                  *)
(***************************************************************************)
C1_CanServeExact ==
    [][last'.op = "can_serve" =>
         LET m == last'.model
         IN /\ last'.ok = HasCapacity(models[m], now, last'.tokens)
            /\ \A x \in Entries(models'[m].minute_requests) : now < x + 60
            /\ \A p \in Entries(models'[m].minute_tokens) : now < p[1] + 60
            /\ \A x \in Entries(models'[m].day_requests) : now < x + 86400]_vars

\* can_serve refused on the token budget alone
C1_Witness ==
    /\ last.op = "can_serve"
    /\ ~last.ok
    /\ Len(models[last.model].minute_requests) < models[last.model].rpm_limit
    /\ Len(models[last.model].day_requests) < models[last.model].rpd_limit
    /\ current_minute_tokens(models[last.model]) + last.tokens > models[last.model].tpm_limit

(***************************************************************************)
(* C2  select_model returns the first model of the order flash,            *)
(* flash-lite, pro that has capacity for the estimate, however loaded it   *)
(* is compared with the models after it.                                   *)
(***************************************************************************)
C2_FirstFit ==
    [][last'.op = "select_model" =>
         \A m \in ModelNames :
            ( /\ HasCapacity(models[m], now, last'.tokens)
              /\ \A a \in ModelNames :
                    HasCapacity(models[a], now, last'.tokens) =>
                       \/ a = m
                       \/ (m = Flash)
                       \/ (m = FlashLite /\ a = Pro) )
            => last'.ret = m]_vars

\* flash has one slot left, flash-lite is idle, and flash is returned
C2_Witness ==
    /\ last.op = "select_model"
    /\ last.ret = Flash
    /\ Len(models[Flash].minute_requests) = 14
    /\ models[FlashLite].day_requests = <<>>

(***************************************************************************)
(* C3  select_model returns None only when no model has capacity for the   *)
(* estimate; when some model has capacity the result is a model name.      *)
(***************************************************************************)
C3_NoneOnlyWhenExhausted ==
    [][last'.op = "select_model" =>
         /\ (last'.ret = None => \A m \in ModelNames : ~HasCapacity(models[m], now, last'.tokens))
         /\ ((\E m \in ModelNames : HasCapacity(models[m], now, last'.tokens))
                => last'.ret \in ModelNames)]_vars

\* select_model returned None
C3_Witness ==
    /\ last.op = "select_model"
    /\ last.ret = None
    /\ \A m \in ModelNames : Len(models[m].minute_requests) >= models[m].rpm_limit

(***************************************************************************)
(* C4  However the pipelines interleave, the requests recorded on a ledger *)
(* inside the minute window never exceed its rpm_limit, and those inside   *)
(* the day window never exceed its rpd_limit.                              *)
(***************************************************************************)
C4_NoOversubscription ==
    \A m \in ModelNames :
        /\ MinuteCount(models[m], now) <= models[m].rpm_limit
        /\ DayCount(models[m], now) <= models[m].rpd_limit

(***************************************************************************)
(* C5  Whatever the estimate (0 included), can_serve is false when the     *)
(* requests inside the minute window number rpm_limit or more.             *)
(***************************************************************************)
C5_RpmBlocks ==
    [][(last'.op = "can_serve"
        /\ MinuteCount(models[last'.model], now) >= models[last'.model].rpm_limit)
       => ~last'.ok]_vars

\* estimate 0, exactly rpm_limit requests in the minute, day and tokens free
C5_Witness ==
    /\ last.op = "can_serve"
    /\ last.tokens = 0
    /\ ~last.ok
    /\ Len(models[last.model].minute_requests) = models[last.model].rpm_limit
    /\ Len(models[last.model].day_requests) < models[last.model].rpd_limit
    /\ models[last.model].minute_tokens = <<>>

(***************************************************************************)
(* C6  A request recorded at T is kept in the minute series (requests and  *)
(* tokens) by a pruning call exactly while now < T + 60, and in the day    *)
(* series exactly while now < T + 86400.                                   *)
(***************************************************************************)
C6_WindowPruning ==
    [][last'.op \in {"can_serve", "get_status"} =>
         LET m == last'.model
         IN /\ \A T \in Entries(models[m].minute_requests) :
                  (T \in Entries(models'[m].minute_requests)) <=> (now < T + 60)
            /\ \A p \in Entries(models[m].minute_tokens) :
                  (p \in Entries(models'[m].minute_tokens)) <=> (now < p[1] + 60)
            /\ \A T \in Entries(models[m].day_requests) :
                  (T \in Entries(models'[m].day_requests)) <=> (now < T + 86400)]_vars

\* a request exactly 60 s old: gone from the minute series, still in the day series
C6_Witness ==
    /\ last.op = "can_serve"
    /\ models[last.model].minute_requests = <<>>
    /\ \E T \in Entries(models[last.model].day_requests) : now = T + 60

(***************************************************************************)
(* C7  With rpm_limit requests recorded inside one minute can_serve is     *)
(* false; once 61 s have passed since the last record, and the token and   *)
(* day limits do not bind, can_serve is true again.                        *)
(***************************************************************************)
C7_RpmRecovers ==
    [][last'.op = "can_serve" =>
         LET q == models[last'.model]
         IN /\ ( /\ Len(q.minute_requests) >= q.rpm_limit
                 /\ \A T \in Entries(q.minute_requests) : now < T + 60 )
               => ~last'.ok
            /\ ( /\ Len(q.minute_requests) >= q.rpm_limit
                 /\ \A T \in Entries(q.minute_requests) : now >= T + 61
                 /\ last'.tokens <= q.tpm_limit
                 /\ DayCount(q, now) < q.rpd_limit )
               => last'.ok]_vars

\* rpm_limit requests made 61 s ago, still inside the day, and can_serve is true
C7_Witness ==
    /\ last.op = "can_serve"
    /\ last.ok
    /\ Len(models[last.model].day_requests) = models[last.model].rpm_limit
    /\ \A T \in Entries(models[last.model].day_requests) : now = T + 61

(***************************************************************************)
(* C8  record_request appends the timestamp to minute_requests and to      *)
(* day_requests on every call and (timestamp, tokens) to minute_tokens     *)
(* only when tokens_used > 0.                                              *)
(***************************************************************************)
C8_RecordAppends ==
    [][(last'.op = "record_usage" /\ last'.model \in ModelNames) =>
         LET m == last'.model
         IN /\ models'[m].minute_requests = models[m].minute_requests \o <<now>>
            /\ models'[m].day_requests = models[m].day_requests \o <<now>>
            /\ models'[m].minute_tokens =
                  IF last'.tokens > 0
                  THEN models[m].minute_tokens \o <<(<<now, last'.tokens>>)>>
                  ELSE models[m].minute_tokens
            /\ (last'.tokens = 0 =>
                  current_minute_tokens(models'[m]) = current_minute_tokens(models[m]))]_vars

\* a zero-token call took a request slot and left the token series alone
C8_Witness ==
    /\ last.op = "record_usage"
    /\ last.model \in ModelNames
    /\ last.tokens = 0
    /\ Len(models[last.model].minute_requests) = 1
    /\ models[last.model].minute_tokens = <<>>


(***************************************************************************)
(* C9  When the backend call of an attempt returns, exactly one request    *)
(* entry is added, to the ledger of the model chosen for that attempt and  *)
(* to no other; the model chosen for an attempt is the value select_model  *)
(* or wait_for_quota returned in it.                                       *)
(***************************************************************************)
StampedNow(s, t) == Cardinality({i \in 1..Len(s) : s[i] = t})

C9_RecordOnSelected ==
    [][/\ last'.op = "backend_return" =>
            LET m == chosen[last'.caller]
            IN /\ m \in ModelNames
               /\ \A o \in ModelNames :
                     /\ StampedNow(models'[o].minute_requests, now)
                          = StampedNow(models[o].minute_requests, now) + (IF o = m THEN 1 ELSE 0)
                     /\ StampedNow(models'[o].day_requests, now)
                          = StampedNow(models[o].day_requests, now) + (IF o = m THEN 1 ELSE 0)
       /\ \A c \in Callers :
            (last'.caller = c /\ pc'[c] = "invoke") =>
                (chosen'[c] = last'.ret /\ chosen'[c] \in ModelNames)]_vars

\* a caller that got its model from wait_for_quota has finished successfully
C9_Witness ==
    /\ last.op = "backend_return"
    /\ last.ok
    /\ pc[last.caller] = "done"
    /\ waited[last.caller] > 0
    /\ StampedNow(models[chosen[last.caller]].minute_requests, now) = 1

(***************************************************************************)
(* C10  No step of a pipeline other than the return of the backend call    *)
(* adds an entry to a ledger: an attempt that ends in the timeout of       *)
(* wait_for_quota or in an exception of the backend call records nothing.  *)
(***************************************************************************)
IsSuffix(a, b) == Len(a) <= Len(b) /\ a = SubSeq(b, Len(b) - Len(a) + 1, Len(b))

NoGain(q, r) ==
    /\ IsSuffix(r.minute_requests, q.minute_requests)
    /\ IsSuffix(r.minute_tokens, q.minute_tokens)
    /\ IsSuffix(r.day_requests, q.day_requests)

C10_FailuresRecordNothing ==
    [][last'.op \in {"begin", "wake", "wait_timeout", "backend_raise", "return", "tick"} =>
          \A m \in ModelNames : NoGain(models[m], models'[m])]_vars

\* an attempt has just ended in the timeout of wait_for_quota
C10_Witness ==
    /\ last.op = "wait_timeout"
    /\ waited[last.caller] = 0
    /\ attempt[last.caller] = 2

\* the first model of the order flash, flash-lite, pro with capacity for e at t
FirstWithCapacity(ms, t, e) ==
    IF HasCapacity(ms[Flash], t, e) THEN Flash
    ELSE IF HasCapacity(ms[FlashLite], t, e) THEN FlashLite
    ELSE IF HasCapacity(ms[Pro], t, e) THEN Pro
    ELSE None

(***************************************************************************)
(* C11 (as claimed)  At each 1-second tick wait_for_quota returns the      *)
(* first model of the priority order that has capacity for an estimate of  *)
(* 0 tokens, and goes on waiting only when there is none.                  *)
(***************************************************************************)
C11_WaitSelectsWithZero ==
    [][last'.op = "wait_wake" =>
         LET f == FirstWithCapacity(models, now, 0)
         IN /\ last'.ret = f
            /\ f # None => pc'[last'.caller] = "returned"]_vars

(***************************************************************************)
(* C11 (amended)  At each 1-second tick wait_for_quota returns the first   *)
(* model of the priority order that has capacity for the default estimate  *)
(* of can_serve, 4000 tokens, and goes on waiting only when there is none. *)
(***************************************************************************)
C11_WaitSelectsWithDefault ==
    [][last'.op = "wait_wake" =>
         LET f == FirstWithCapacity(models, now, DefaultEstimate)
         IN /\ last'.ret = f
            /\ chosen'[last'.caller] = f
            /\ f # None => pc'[last'.caller] = "returned"]_vars

\* flash-lite is returned at the third tick although flash had room for 0 tokens
C11_Witness ==
    /\ last.op = "wait_wake"
    /\ last.ret = FlashLite
    /\ pc[Waiter] = "returned"
    /\ waited[Waiter] = 3
    /\ HasCapacity(models[Flash], now, 0)

(***************************************************************************)
(* C12  wait_for_quota(max_wait) ends after at most max_wait ticks of one  *)
(* second: it sleeps again only when no model was eligible and fewer than  *)
(* max_wait ticks have passed, it returns None exactly when no model was   *)
(* eligible at the last of the max_wait ticks (nor, therefore, at any      *)
(* earlier one), and the timeout is a returned None, not an exception.     *)
(***************************************************************************)
C12_WaitBounded ==
    [][last'.op \in {"wait_for_quota", "wait_wake"} =>
         LET c == last'.caller
             none == \A m \in ModelNames : ~HasCapacity(models[m], now, DefaultEstimate)
         IN /\ waited'[c] <= max_wait'[c]
            /\ pc'[c] \in {"sleep", "returned"}
            /\ pc'[c] = "sleep" => (waited'[c] < max_wait'[c] /\ wake'[c] = now + 1)
            /\ last'.op = "wait_for_quota" =>
                  (pc'[c] = "returned" <=> max_wait'[c] = 0) /\ chosen'[c] = None
            /\ last'.op = "wait_wake" =>
                  /\ waited'[c] = waited[c] + 1
                  /\ pc'[c] = "sleep" => none
                  /\ (pc'[c] = "returned" /\ chosen'[c] = None) <=> (none /\ waited'[c] = max_wait[c])
                  /\ chosen'[c] # None => chosen'[c] \in ModelNames]_vars

\* the fifth tick of wait_for_quota(5) found nothing: None is returned
C12_Witness ==
    /\ last.op = "wait_wake"
    /\ pc[Waiter] = "returned"
    /\ chosen[Waiter] = None
    /\ max_wait[Waiter] = 5
    /\ waited[Waiter] = 5

(***************************************************************************)
(* C13  No model is eligible from the start of wait_for_quota on, nobody   *)
(* else records, and at some tick within max_wait exactly one model B has  *)
(* become eligible (its entries left the minute window): wait_for_quota    *)
(* returns B at that tick.                                                 *)
(***************************************************************************)
C13_ReturnsFreedModel ==
    [][(last'.op = "wait_wake" /\ last.op = "tick" /\ calls = 0) =>
         \A B \in ModelNames :
            ( /\ \A m \in ModelNames : ~HasCapacity(models[m], now - 1, DefaultEstimate)
              /\ HasCapacity(models[B], now, DefaultEstimate)
              /\ \A o \in ModelNames \ {B} : ~HasCapacity(models[o], now, DefaultEstimate) )
            => /\ last'.ret = B
               /\ chosen'[last'.caller] = B
               /\ pc'[last'.caller] = "returned"]_vars

\* wait_for_quota(5): flash-lite freed 3 s after the start and is returned then
C13_Witness ==
    /\ last.op = "wait_wake"
    /\ last.ret = FlashLite
    /\ chosen[Waiter] = FlashLite
    /\ max_wait[Waiter] = 5
    /\ waited[Waiter] = 3
    /\ now = PipeStart + 3
    /\ calls = 0
    /\ Len(models[Flash].minute_requests) = models[Flash].rpm_limit
    /\ Len(models[Pro].minute_requests) = models[Pro].rpm_limit

InvokedIn(g, n) ==
    LET mine == SelectSeq(g.invoked, LAMBDA p : p[1] = n)
    IN [k \in 1..Len(mine) |-> mine[k][2]]

(***************************************************************************)
(* C15  _generate_with_fallback invokes the variants of MODELS in list     *)
(* order; an error from a variant that is not the last, whatever its       *)
(* class, leads to the invocation of the next variant; the response of the *)
(* first variant that succeeds is returned, nothing is raised to the       *)
(* caller and no further variant is invoked.                               *)
(***************************************************************************)
C15_FallbackInOrder ==
    [][/\ gen'.pc = "variant" =>
             InvokedIn(gen', gen'.attempt_number) = SubSeq(MODELS, 1, gen'.i)
       /\ (last'.op = "variant_raise" /\ gen.i < Len(MODELS)) =>
             /\ gen'.pc = "variant"
             /\ gen'.i = gen.i + 1
             /\ gen'.attempt_number = gen.attempt_number
             /\ gen'.fallback.ended = None
             /\ gen'.raised = NotRaised
       /\ last'.op = "variant_return" =>
             /\ gen'.fallback.ended = "returned"
             /\ gen'.fallback.response.model = MODELS[gen.i]
             /\ gen'.fallback.exception = NoException
             /\ InvokedIn(gen', gen.attempt_number) = SubSeq(MODELS, 1, gen.i)
             /\ gen'.invoked = gen.invoked
             /\ ~gen.is_json =>
                   /\ gen'.pc = "returned"
                   /\ gen'.result.model = MODELS[gen.i]
                   /\ gen'.raised = NotRaised]_vars

\* the first two variants raised (the second a 429), the third answered
C15_Witness ==
    /\ last.op = "variant_return"
    /\ gen.pc = "returned"
    /\ gen.result = [model |-> MODELS[3], attempt |-> 1]
    /\ gen.invoked = <<<<1, MODELS[1]>>, <<1, MODELS[2]>>, <<1, MODELS[3]>>>>
    /\ gen.last_exception = VariantError(1, MODELS[2], "429")

(***************************************************************************)
(* C16  When every variant of MODELS has failed, and only then,            *)
(* _generate_with_fallback raises; what it raises is the exception of the  *)
(* last variant tried, not of the first, and it returns no response.       *)
(***************************************************************************)
C16_AllFailRaisesLast ==
    [][/\ (last'.op = "variant_raise" /\ gen.i = Len(MODELS)) =>
             /\ gen'.fallback.ended = "raised"
             /\ gen'.fallback.exception
                   = VariantError(gen.attempt_number, MODELS[Len(MODELS)], last'.ret)
             /\ gen'.fallback.response = NoResponse
             /\ gen'.result = NoResponse
       /\ (gen'.fallback.ended = "raised" /\ gen.fallback.ended # "raised") =>
             /\ last'.op = "variant_raise"
             /\ InvokedIn(gen, gen.attempt_number) = MODELS]_vars

\* the three variants failed with errors of different classes; the exception
\* raised is the third variant's
C16_Witness ==
    /\ last.op = "variant_raise"
    /\ gen.fallback.ended = "raised"
    /\ gen.fallback.exception = VariantError(1, MODELS[3], "other")
    /\ Len(gen.invoked) = 3

\* the steps in which an attempt of a pipeline fails: wait_for_quota timed out,
\* the backend call raised, or its response did not validate
AttemptFailed(c) ==
    /\ last'.caller = c
    /\ \/ last'.op \in {"wait_timeout", "backend_raise"}
       \/ last'.op = "backend_return" /\ pc'[c] # "done"

(***************************************************************************)
(* C17  generate_quiz, the pipeline that retries, makes at most 3          *)
(* attempts.  An attempt starts with select_model (and wait_for_quota when *)
(* it returns None) and reaches the backend only with a model; a failure   *)
(* of any stage (no capacity after waiting, backend error, validation)     *)
(* starts the next attempt when fewer than 3 have been made and ends the   *)
(* run otherwise; a successful attempt ends the run.  (No pipeline makes   *)
(* more than 3 attempts; the two roadmap pipelines make one.)              *)
(***************************************************************************)
C17_UniformRetry ==
    [][\A c \in Callers :
         /\ attempt'[c] <= 3
         /\ pc'[c] = "invoke" => chosen'[c] \in ModelNames
         /\ (last'.caller = c /\ last'.op \in {"begin", "wait_timeout", "backend_raise", "backend_return"}
               /\ pc'[c] \in {"invoke", "sleep"}) =>
               /\ chosen'[c] = FirstWithCapacity(models', now, Estimate(kind'[c]))
               /\ pc'[c] = "sleep" <=> chosen'[c] = None
         /\ (AttemptFailed(c) /\ kind[c] = GenerateQuiz) =>
               IF attempt[c] < 3
               THEN attempt'[c] = attempt[c] + 1 /\ pc'[c] \in {"invoke", "sleep"}
               ELSE attempt'[c] = attempt[c] /\ pc'[c] = "failed"
         /\ (last'.caller = c /\ last'.op = "backend_return" /\ pc'[c] = "done") =>
               attempt'[c] = attempt[c]
         /\ pc[c] \in {"done", "failed", "answered"} =>
               pc'[c] \in {"done", "failed", "answered"} /\ attempt'[c] \in {attempt[c], 0}]_vars

\* generate_quiz: the third attempt succeeds after the second failed validation
C17_Witness ==
    \E c \in Callers :
        /\ last.op = "backend_return"
        /\ last.caller = c
        /\ kind[c] = GenerateQuiz
        /\ pc[c] = "done"
        /\ attempt[c] = 3
        /\ last_error[c] = AttemptError(2, "backend_return")

\* the delay the claim puts before the attempt that follows attempt n
Backoff(n) == IF n = 1 THEN 2 ELSE IF n = 2 THEN 4 ELSE IF n = 3 THEN 8 ELSE 10

(***************************************************************************)
(* C18  Between the failure of attempt n and the start of attempt n + 1    *)
(* at least 2 s (n = 1) and 4 s (n = 2) pass (exponential backoff from 2 s *)
(* with multiplier 2, capped at 10 s).                                     *)
(***************************************************************************)
C18_BackoffBetweenAttempts ==
    [][\A c \in Callers :
          (attempt[c] >= 1 /\ attempt'[c] = attempt[c] + 1) =>
              now' >= now + Backoff(attempt[c])]_vars

(***************************************************************************)
(* C19  When the last attempt of a run fails, what the caller receives is  *)
(* made from the exception of that last attempt (for generate_quiz the     *)
(* third), not from that of an earlier attempt.                            *)
(***************************************************************************)
C19_LastErrorIsFinal ==
    [][\A c \in Callers :
          (pc'[c] = "failed" /\ pc[c] # "failed") =>
              /\ AttemptFailed(c)
              /\ attempt[c] = MaxAttempts(kind[c])
              /\ last_error'[c] = AttemptError(MaxAttempts(kind[c]), last'.op)]_vars

\* generate_quiz failed three times; the third response did not validate
C19_Witness ==
    \E c \in Callers :
        /\ pc[c] = "failed"
        /\ kind[c] = GenerateQuiz
        /\ attempt[c] = 3
        /\ last.caller = c
        /\ last.op = "backend_return"
        /\ last_error[c] = AttemptError(3, "backend_return")

(***************************************************************************)
(* C20 (as claimed)  The "available" field of get_status is true exactly   *)
(* when the ledger has capacity for an estimate of 0 tokens.               *)
(***************************************************************************)
C20_AvailableIsCanServeZero ==
    [][last'.op = "get_status" =>
         last'.ok = HasCapacity(models[last'.model], now, 0)]_vars

(***************************************************************************)
(* C20 (amended)  The "available" field of get_status is true exactly when *)
(* the ledger has capacity for the default estimate of can_serve, 4000     *)
(* tokens: it is what can_serve() answers on the same ledger state.        *)
(***************************************************************************)
C20_AvailableIsCanServeDefault ==
    [][last'.op = "get_status" =>
         last'.ok = HasCapacity(models[last'.model], now, DefaultEstimate)]_vars

\* not available, although requests are below both limits and the tokens of
\* the minute are within tpm_limit
C20_Witness ==
    /\ last.op = "get_status"
    /\ ~last.ok
    /\ HasCapacity(models[last.model], now, 0)
    /\ last.counts[2] > 0

(***************************************************************************)
(* C21  get_status called again at once (same clock reading, no            *)
(* record_request in between) returns the same request, token and day      *)
(* counts as the call before it and leaves the ledger as that call left    *)
(* it; the same for get_all_status over all ledgers.                       *)
(***************************************************************************)
C21_StatusIdempotent ==
    [][/\ last'.op = "get_status" =>
            LET m == last'.model
                again == get_status(models'[m], now)
            IN /\ <<again.status.rpm[1], again.status.tpm[1], again.status.rpd[1]>> = last'.counts
               /\ again.status.available = last'.ok
               /\ again.q = models'[m]
       /\ last'.op = "get_all_status" =>
            LET again == get_all_status(models', now)
            IN /\ again.models = models'
               /\ \A m \in ModelNames : again.status[m] = get_status(models[m], now).status]_vars

\* the first call pruned the minute series and reported requests left in the day
C21_Witness ==
    /\ last.op = "get_status"
    /\ last.counts[1] = 0
    /\ last.counts[3] > 0
    /\ models[last.model].minute_requests = <<>>

(***************************************************************************)
(* C22  The counts get_status returns are the numbers of requests and the  *)
(* sum of tokens recorded less than 60 s before the call and the number of *)
(* requests recorded less than 86400 s before it, and can_serve (hence     *)
(* 'available') decides on those same numbers: an entry outside its window *)
(* is never counted, although record_request leaves it in the series.      *)
(***************************************************************************)
C22_OnlyInWindowCounted ==
    [][/\ last'.op = "get_status" =>
            LET q == models[last'.model]
            IN /\ last'.counts = <<MinuteCount(q, now), MinuteTokens(q, now), DayCount(q, now)>>
               /\ last'.ok = HasCapacity(q, now, DefaultEstimate)
       /\ last'.op = "can_serve" =>
            LET q == models[last'.model]
            IN last'.ok = ( /\ MinuteCount(q, now) < q.rpm_limit
                            /\ MinuteTokens(q, now) + last'.tokens <= q.tpm_limit
                            /\ DayCount(q, now) < q.rpd_limit )]_vars

\* the series held expired requests and a fresh one when get_status was called
C22_Witness ==
    /\ last.op = "get_status"
    /\ last.counts[1] = 1
    /\ last.counts[3] > 1
    /\ \E T \in Entries(models[last.model].day_requests) : now >= T + 60

(***************************************************************************)
(* C23  The keys of the registry and the rpm, tpm and rpd limits of each   *)
(* model are those set at construction: no call of select_model,           *)
(* wait_for_quota, can_serve, record_usage or get_all_status adds or       *)
(* removes a key or changes a limit, and record_usage with a name that is  *)
(* not a key changes no ledger.                                            *)
(***************************************************************************)
C23_RegistryFixed ==
    [][/\ DOMAIN models' = DOMAIN InitModels
       /\ \A m \in DOMAIN InitModels :
             /\ models'[m].model_name = m
             /\ models'[m].rpm_limit = InitModels[m].rpm_limit
             /\ models'[m].tpm_limit = InitModels[m].tpm_limit
             /\ models'[m].rpd_limit = InitModels[m].rpd_limit
       /\ (last'.op = "record_usage" /\ last'.model \notin DOMAIN InitModels)
             => models' = models]_vars

\* usage recorded under a name that is not a key while a coroutine waits for quota
C23_Witness ==
    /\ last.op = "record_usage"
    /\ last.model = UnknownModel
    /\ pc[Waiter] = "sleep"
    /\ calls = 1

(***************************************************************************)
(* C24  Provided every backend call returns or raises, every run of        *)
(* generate_quiz, generate_roadmap, generate and generate_content ends     *)
(* with a result or a failure.  A pipeline run makes at most its attempt   *)
(* bound of attempts, each with at most one wait_for_quota of at most      *)
(* max_wait sleeps; generate_content makes at most 3 attempts.             *)
(***************************************************************************)
C24_RunsTerminate ==
    /\ \A c \in LiveCallers :
          (pc[c] \in {"sleep", "invoke"}) ~> (pc[c] \in {"done", "failed"})
    /\ (gen.pc \in {"variant", "backoff"}) ~> (gen.pc \in {"returned", "raised"})
    /\ [](\A c \in LiveCallers :
            pc[c] # "idle" =>
               /\ attempt[c] <= MaxAttempts(kind[c]) \/ pc[c] = "answered"
               /\ pc[c] = "sleep" => waited[c] < MaxWait(kind[c]))
    /\ [](gen.attempt_number <= StopAfterAttempt)
    /\ [][\A c \in LiveCallers :
            (pc'[c] = "sleep" /\ waited'[c] = 0 /\ (pc[c] # "sleep" \/ attempt'[c] # attempt[c]))
               => attempt'[c] = (IF pc[c] = "idle" THEN 1 ELSE attempt[c] + 1)]_vars

\* a quiz run has failed in its third attempt, after one wait_for_quota that
\* timed out and one that returned a model
C24_Witness ==
    \E c \in LiveCallers :
        /\ pc[c] = "failed"
        /\ kind[c] = GenerateQuiz
        /\ attempt[c] = 3
        /\ now > PipeStart + MaxWait(GenerateQuiz)

(***************************************************************************)
(* C25  A cancellation delivered while a request is suspended in           *)
(* wait_for_quota stops that request: from then on it starts no attempt,   *)
(* makes no backend call and records no usage, and the cancellation itself *)
(* leaves every ledger as it was, so the other callers go on selecting and *)
(* recording.  (The pipelines have no backoff between attempts to be       *)
(* cancelled in.)                                                          *)
(***************************************************************************)
C25_CancelStops ==
    [][/\ \A c \in Callers :
             pc[c] = "cancelled" =>
                /\ pc'[c] = "cancelled"
                /\ attempt'[c] = attempt[c]
                /\ chosen'[c] = chosen[c]
                /\ last'.caller # c
       /\ last'.op = "cancel" =>
             /\ pc[last'.caller] = "sleep"
             /\ pc'[last'.caller] = "cancelled"
             /\ models' = models
             /\ \A d \in Callers \ {last'.caller} : pc'[d] = pc[d] /\ chosen'[d] = chosen[d]]_vars

\* one request was cancelled in its wait; another got a model afterwards and
\* its usage has just been recorded
C25_Witness ==
    \E c, d \in Callers :
        /\ c # d
        /\ pc[c] = "cancelled"
        /\ attempt[c] < MaxAttempts(kind[c])
        /\ last.op = "backend_return"
        /\ last.caller = d
        /\ waited[d] > 0
        /\ StampedNow(models[chosen[d]].minute_requests, now) = 1

(***************************************************************************)
(* C26  With a clock that never goes back, minute_requests, minute_tokens  *)
(* and day_requests are in chronological order in every reachable state;   *)
(* a step either appends one entry stamped with the current clock reading  *)
(* at the end of a series (record_request) or leaves a suffix of it        *)
(* (pruning): entries go only from the front and no entry that stays is    *)
(* changed.                                                                *)
(***************************************************************************)
Chronological(s) == \A i \in 1..(Len(s) - 1) : s[i] <= s[i + 1]

Stamps(s) == [i \in 1..Len(s) |-> s[i][1]]

C26_AppendOnlyOrdered ==
    /\ [](\A m \in ModelNames :
            /\ Chronological(models[m].minute_requests)
            /\ Chronological(Stamps(models[m].minute_tokens))
            /\ Chronological(models[m].day_requests))
    /\ [][\A m \in ModelNames :
            IF last'.op = "record_usage" /\ last'.model = m
            THEN /\ models'[m].minute_requests = Append(models[m].minute_requests, now)
                 /\ models'[m].day_requests = Append(models[m].day_requests, now)
                 /\ \/ models'[m].minute_tokens = models[m].minute_tokens
                    \/ models'[m].minute_tokens
                          = Append(models[m].minute_tokens, <<now, last'.tokens>>)
            ELSE \/ models'[m] = models[m]
                 \/ /\ IsSuffix(models'[m].minute_requests, models[m].minute_requests)
                    /\ IsSuffix(models'[m].minute_tokens, models[m].minute_tokens)
                    /\ IsSuffix(models'[m].day_requests, models[m].day_requests)]_vars

\* pruning has just taken the expired front of the minute series and left the
\* request recorded after it
C26_Witness ==
    /\ last.op = "can_serve"
    /\ Len(models[last.model].minute_requests) = 1
    /\ Len(models[last.model].day_requests) > 1
    /\ models[last.model].day_requests[1] + 60 <= now
    /\ models[last.model].minute_requests[1] > models[last.model].day_requests[1]

(***************************************************************************)
(* C27  Whenever generate_roadmap (estimate 5000), generate (4000) or      *)
(* generate_quiz (1500) goes on to call the backend with model m, the      *)
(* ledger of m had capacity for that pipeline's own estimate at the moment *)
(* m was chosen, whether m came from select_model or from wait_for_quota.  *)
(***************************************************************************)
C27_ChosenHadCapacity ==
    [][\A c \in Callers :
          (last'.caller = c /\ pc'[c] = "invoke" /\ last'.op \in {"begin", "wake", "wait_timeout", "backend_raise", "backend_return"})
             => /\ chosen'[c] \in ModelNames
                /\ HasCapacity(models[chosen'[c]], now, Estimate(kind'[c]))]_vars

\* generate_roadmap, whose estimate is above the default, got its model from
\* wait_for_quota
C27_Witness ==
    /\ last.op = "wake"
    /\ last.ok
    /\ pc[last.caller] = "invoke"
    /\ kind[last.caller] = GenerateRoadmap
    /\ chosen[last.caller] = last.ret

(***************************************************************************)
(* C28  When every caller records the token amount it estimated, the       *)
(* tokens recorded on a ledger inside the minute window never exceed its   *)
(* tpm_limit, however the pipeline runs interleave.                        *)
(***************************************************************************)
C28_TokensWithinLimit ==
    \A m \in ModelNames : MinuteTokens(models[m], now) <= models[m].tpm_limit

\* how many request entries stamped t the ledgers hold together
RequestsStamped(ms, t) ==
    StampedNow(ms[Flash].minute_requests, t) + StampedNow(ms[FlashLite].minute_requests, t)
       + StampedNow(ms[Pro].minute_requests, t)

(***************************************************************************)
(* C29  In generate_quiz usage is recorded when the backend call returns,  *)
(* before validation: an attempt whose response fails _parse_questions has *)
(* added one request and 1500 tokens to the ledger of the model chosen for *)
(* it, exactly as a successful one, and an attempt whose backend call      *)
(* raises has added none.  A run whose k attempts all get a response from  *)
(* the backend therefore adds exactly k request entries, whether it ends   *)
(* in success or failure.                                                  *)
(***************************************************************************)
C29_RecordedBeforeValidation ==
    [][\A c \in Callers :
          (last'.caller = c /\ kind[c] = GenerateQuiz) =>
             /\ last'.op = "backend_return" =>
                   /\ \A m \in ModelNames :
                         /\ StampedNow(models'[m].minute_requests, now)
                              = StampedNow(models[m].minute_requests, now)
                                   + (IF m = chosen[c] THEN 1 ELSE 0)
                         /\ StampedNow(models'[m].minute_tokens, <<now, 1500>>)
                              = StampedNow(models[m].minute_tokens, <<now, 1500>>)
                                   + (IF m = chosen[c] THEN 1 ELSE 0)
             /\ last'.op = "backend_raise" =>
                   RequestsStamped(models', now) = RequestsStamped(models, now)]_vars

\* the response of a quiz attempt has just failed validation, and the attempt
\* is on the ledger
C29_Witness ==
    /\ last.op = "backend_return"
    /\ kind[last.caller] = GenerateQuiz
    /\ pc[last.caller] # "done"
    /\ attempt[last.caller] > 1
    /\ now > PipeStart
    /\ \E m \in ModelNames :
          /\ StampedNow(models[m].minute_requests, now) = 1
          /\ StampedNow(models[m].minute_tokens, <<now, 1500>>) = 1

(***************************************************************************)
(* C30  select_model, can_serve, get_status, get_all_status and            *)
(* wait_for_quota add no entry to any ledger: selecting reserves nothing,  *)
(* and all these calls can do to a series is drop its expired front.       *)
(* record_usage(m, n) changes the ledger of m and leaves every other       *)
(* ledger exactly as it was.                                               *)
(***************************************************************************)
C30_ReadersAddNothing ==
    [][/\ last'.op \in {"select_model", "can_serve", "get_status", "get_all_status",
                        "wait_for_quota", "wait_wake"}
            => \A m \in ModelNames : NoGain(models[m], models'[m])
       /\ last'.op = "record_usage"
            => \A o \in ModelNames : o # last'.model => models'[o] = models[o]]_vars

\* wait_for_quota has just returned a model whose minute series it pruned empty
C30_Witness ==
    /\ last.op = "wait_wake"
    /\ last.ret \in ModelNames
    /\ models[last.ret].minute_requests = <<>>
    /\ models[last.ret].day_requests # <<>>

(***************************************************************************)
(* C31  In the ledger that can_serve or get_status has just pruned, every  *)
(* timestamp of minute_tokens occurs at least as often in minute_requests  *)
(* and every timestamp of minute_requests occurs at least as often in      *)
(* day_requests, so that                                                   *)
(* count(minute_tokens) <= count(minute_requests) <= count(day_requests).  *)
(***************************************************************************)
Occurrences(s, x) == Cardinality({i \in 1..Len(s) : s[i] = x})

Nested(q) ==
    /\ \A x \in Entries(Stamps(q.minute_tokens)) :
          Occurrences(Stamps(q.minute_tokens), x) <= Occurrences(q.minute_requests, x)
    /\ \A x \in Entries(q.minute_requests) :
          Occurrences(q.minute_requests, x) <= Occurrences(q.day_requests, x)
    /\ Len(q.minute_tokens) <= Len(q.minute_requests)
    /\ Len(q.minute_requests) <= Len(q.day_requests)

C31_SeriesNested ==
    [][last'.op \in {"can_serve", "get_status"} => Nested(models'[last'.model])]_vars

\* a pruned ledger that holds a token entry and requests of the day that have
\* left the minute window
C31_Witness ==
    /\ last.op \in {"can_serve", "get_status"}
    /\ models[last.model].minute_tokens # <<>>
    /\ Len(models[last.model].minute_requests) < Len(models[last.model].day_requests)

(***************************************************************************)
(* C32  Capacity comes back: when the last request on any ledger was       *)
(* recorded at least 60 s ago and no model is at its daily limit, or when  *)
(* it was recorded at least 86400 s ago, select_model(e) returns a model   *)
(* for every estimate e that is <= the tpm_limit of some model; it does so *)
(* at every later clock reading as well, until the next record.            *)
(***************************************************************************)
QuietFor(ms, t, w) ==
    \A m \in ModelNames :
        /\ \A i \in 1..Len(ms[m].minute_requests) : ms[m].minute_requests[i] + w <= t
        /\ \A i \in 1..Len(ms[m].day_requests) : ms[m].day_requests[i] + w <= t

DailyLimitReached(ms, t) == \E m \in ModelNames : DayCount(ms[m], t) >= ms[m].rpd_limit

C32_CapacityReturns ==
    [][(/\ last'.op = "select_model"
        /\ \E m \in ModelNames : last'.tokens <= models[m].tpm_limit
        /\ \/ QuietFor(models, now, MinuteWindow) /\ ~DailyLimitReached(models, now)
           \/ QuietFor(models, now, DayWindow))
          => last'.ret # None]_vars

\* every model was at its daily limit; a day after the last record flash is chosen
C32_Witness ==
    /\ last.op = "select_model"
    /\ last.ret = Flash
    /\ now = DayWindow
    /\ \A m \in {FlashLite, Pro} :
          /\ Len(models[m].day_requests) = models[m].rpd_limit
          /\ models[m].day_requests[1] = 0

\* every model was at its rpm_limit and none at its daily limit; one minute after
\* the last record flash is chosen
C32_WitnessMinute ==
    /\ last.op = "select_model"
    /\ last.ret = Flash
    /\ now = MinuteWindow
    /\ \A m \in {FlashLite, Pro} :
          /\ Len(models[m].minute_requests) = models[m].rpm_limit
          /\ Len(models[m].day_requests) = models[m].rpm_limit
          /\ models[m].minute_requests[1] = 0

(***************************************************************************)
(* C33  wait_for_quota sleeps one full tick before its first capacity      *)
(* check.  The call itself returns no model and touches no ledger, even    *)
(* when a model has capacity on entry: with max_wait > 0 it goes to sleep  *)
(* until now + 1, with max_wait = 0 it returns None at once.  A model is   *)
(* returned only by a pass that follows a completed sleep, so at least one *)
(* tick after the entry.                                                   *)
(***************************************************************************)
C33_SleepsBeforeFirstCheck ==
    /\ [](\A c \in Callers :
             (kind[c] = WaitForQuotaCall /\ chosen[c] # None)
                => (pc[c] = "returned" /\ waited[c] >= 1))
    /\ [][/\ last'.op = "wait_for_quota"
              => /\ models' = models
                 /\ last'.ret = None
                 /\ chosen'[last'.caller] = None
                 /\ waited'[last'.caller] = 0
                 /\ IF last'.tokens = 0
                    THEN pc'[last'.caller] = "returned"
                    ELSE pc'[last'.caller] = "sleep" /\ wake'[last'.caller] = now + 1
          /\ last'.op = "wait_wake"
              => /\ now >= wake[last'.caller]
                 /\ waited'[last'.caller] = waited[last'.caller] + 1]_vars

\* flash was free on entry and is returned by the first pass, one tick later
C33_Witness ==
    /\ last.op = "wait_wake"
    /\ last.ret = Flash
    /\ waited[last.caller] = 1
    /\ now = PipeStart + 1
    /\ models[Flash].day_requests = <<>>

\* wait_for_quota(0) has returned None although flash is free
C33_WitnessZero ==
    /\ last.op = "wait_for_quota"
    /\ last.tokens = 0
    /\ pc[last.caller] = "returned"
    /\ chosen[last.caller] = None
    /\ HasCapacity(models[Flash], now, DefaultEstimate)

(***************************************************************************)
(* C34  One call of generate_content or generate_json_content makes at     *)
(* most 3 x |MODELS| backend invocations.  There are at most 3 attempts;   *)
(* each starts its scan at the first variant of MODELS and tries the       *)
(* variants in list order without skipping any, those that failed in an    *)
(* earlier attempt included.  The call ends with the first invocation      *)
(* whose response is accepted: nothing is invoked after it, and the result *)
(* is the response of the last invocation made.                            *)
(***************************************************************************)
IsPrefix(a, b) == Len(a) <= Len(b) /\ a = SubSeq(b, 1, Len(a))

C34_InvocationsBounded ==
    /\ [](/\ Len(gen.invoked) <= StopAfterAttempt * Len(MODELS)
          /\ gen.attempt_number <= StopAfterAttempt
          /\ \A k \in 1..Len(gen.invoked) : gen.invoked[k][1] \in 1..gen.attempt_number
          /\ \A n \in 1..gen.attempt_number :
                /\ InvokedIn(gen, n) # <<>>
                /\ IsPrefix(InvokedIn(gen, n), MODELS)
          /\ gen.pc = "returned"
                => gen.invoked[Len(gen.invoked)] = <<gen.result.attempt, gen.result.model>>)
    /\ [][/\ last'.op = "retry"
              => /\ gen'.attempt_number = gen.attempt_number + 1
                 /\ gen'.i = 1
                 /\ gen'.invoked = Append(gen.invoked, <<gen'.attempt_number, MODELS[1]>>)
          /\ (last'.op = "variant_return" /\ last'.ok)
              => /\ gen'.pc = "returned"
                 /\ gen'.invoked = gen.invoked
          /\ gen.pc \in {"returned", "raised"} => gen'.invoked = gen.invoked]_vars

\* eight invocations failed; the ninth, the last variant in the third attempt,
\* is accepted
C34_Witness ==
    /\ gen.pc = "returned"
    /\ Len(gen.invoked) = StopAfterAttempt * Len(MODELS)
    /\ gen.result = [model |-> MODELS[Len(MODELS)], attempt |-> StopAfterAttempt]
    /\ \A n \in 1..StopAfterAttempt : InvokedIn(gen, n) = MODELS

(***************************************************************************)
(* C35  Pruning happens before a write as well as before a read: in the    *)
(* ledger record_request has just written to, no entry of minute_requests  *)
(* or minute_tokens is 60 s old or older and no entry of day_requests is   *)
(* 86400 s old or older.                                                   *)
(***************************************************************************)
NothingExpired(q, t) ==
    /\ \A i \in 1..Len(q.minute_requests) : q.minute_requests[i] > t - MinuteWindow
    /\ \A i \in 1..Len(q.minute_tokens) : q.minute_tokens[i][1] > t - MinuteWindow
    /\ \A i \in 1..Len(q.day_requests) : q.day_requests[i] > t - DayWindow

C35_PrunedAfterRecord ==
    [][(last'.op = "record_usage" /\ last'.model \in ModelNames)
          => NothingExpired(models'[last'.model], now)]_vars

====
